---------------------------- MODULE Spec2Model ----------------------------
(***************************************************************************)
(* Model of the final revision of StopwatchApp (src/stoper_app.pyw, lines  *)
(* 1288-2283): the stopwatch state machine, the CSV session log and its    *)
(* two readers.                                                            *)
(*                                                                         *)
(* Time is counted in whole seconds.  datetime.now() is the variable now,  *)
(* the calendar date is the variable today.  Each Tk callback runs as one  *)
(* atomic action; the answers given in modal dialogs and the outcome of    *)
(* file operations are inputs of the action.  Widget contents (labels,     *)
(* colours, the progress bar) are not part of the state.                   *)
(***************************************************************************)
EXTENDS Integers, Sequences, FiniteSets, TLC

VARIABLES
    is_running,                 \* self.is_running
    counter,                    \* self.counter (displayed seconds)
    start_timestamp,            \* self.start_timestamp, None or a time
    elapsed_time_before_pause,  \* self.elapsed_time_before_pause
    current_task,               \* self.current_task
    task_var,                   \* self.task_var (text of the task entry)
    last_logged_minute_mark,    \* self.last_logged_minute_mark
    config,                     \* self.config
    daily_goal,                 \* self.daily_goal
    configFile,                 \* config-stoper.json
    reminder_window,            \* self.reminder_window: None, or the popup, named by the time it was made
    last_reminder_time,         \* self.last_reminder_time, None or a time
    after_queue,                \* the callbacks root.after() holds for the reminder
    now,                        \* datetime.now(), seconds
    today,                      \* datetime.now().date(), day of the month
    tick_due,                   \* time has passed since update_display ran
    logExists,                  \* wynik-stoper.csv exists
    logFile,                    \* its content, the pieces written to it
    oldBytes,                   \* size of older history in the file, not modelled in detail
    backupFile,                 \* wynik-stoper.csv.bak: <<>> or <<content>>
    last                        \* history: the last handler call and its outcome

vars == <<is_running, counter, start_timestamp, elapsed_time_before_pause,
          current_task, task_var, last_logged_minute_mark, config, daily_goal,
          configFile, reminder_window, last_reminder_time, after_queue,
          now, today, tick_due, logExists, logFile, oldBytes, backupFile, last>>

timerVars == <<is_running, counter, start_timestamp, elapsed_time_before_pause,
               current_task, task_var, last_logged_minute_mark>>

fileVars == <<logExists, logFile, oldBytes, backupFile>>

configVars == <<config, daily_goal, configFile>>

reminderVars == <<reminder_window, last_reminder_time, after_queue>>

-----------------------------------------------------------------------------
(* Bounds of the model *)

MaxHalfMinutes == 6    \* time passes for this many half minutes
MaxMinutes == 12       \* adjust_time is not pressed beyond this many minutes
MaxDay == 2            \* the calendar reaches this day of the month
MaxRecords == 2        \* sessions saved in one run (SpecLog)
MaxSaves == 1          \* sessions saved in one run (SpecSave)
MaxPercent == 120      \* percentages compared with the one on the screen

(* Program constants *)

RESET_CONFIRMATION_SECONDS == 600
BackupThreshold == 1048576
SecondsPerMinute == 60
LogMarkSeconds == 300
CLOSE_ASK_SECONDS == 60

None == -1

TickSteps == {30, 60}
AdjustSteps == {300, 60, -60, -300}

-----------------------------------------------------------------------------
(* The timer as a record, so that handlers calling handlers compose. *)

Self ==
    [is_running |-> is_running, counter |-> counter,
     start_timestamp |-> start_timestamp,
     elapsed_time_before_pause |-> elapsed_time_before_pause,
     current_task |-> current_task, task_var |-> task_var,
     last_logged_minute_mark |-> last_logged_minute_mark]

SetSelf(s) ==
    /\ is_running' = s.is_running
    /\ counter' = s.counter
    /\ start_timestamp' = s.start_timestamp
    /\ elapsed_time_before_pause' = s.elapsed_time_before_pause
    /\ current_task' = s.current_task
    /\ task_var' = s.task_var
    /\ last_logged_minute_mark' = s.last_logged_minute_mark

Max(a, b) == IF a >= b THEN a ELSE b

\* elapsed(): the banked total plus, while running, the open interval
ElapsedOf(s, t) ==
    s.elapsed_time_before_pause
        + (IF s.is_running /\ s.start_timestamp # None
           THEN t - s.start_timestamp ELSE 0)

Elapsed == ElapsedOf(Self, now)

\* str.strip(): leading and trailing whitespace removed
Whitespace == {" ", "\t", "\n", "\r"}

RECURSIVE LStrip(_)
LStrip(t) ==
    IF t # <<>> /\ Head(t) \in Whitespace THEN LStrip(Tail(t)) ELSE t

RECURSIVE RStrip(_)
RStrip(t) ==
    IF t # <<>> /\ t[Len(t)] \in Whitespace
    THEN RStrip(SubSeq(t, 1, Len(t) - 1)) ELSE t

Strip(t) == RStrip(LStrip(t))

-----------------------------------------------------------------------------
(* Core logic: start, stop, reset, toggle_start_stop, adjust_time *)

\* start() that takes the text of the task entry again when running
start_relabels(s, t) ==
    IF s.is_running THEN [s EXCEPT !.current_task = s.task_var]
    ELSE [s EXCEPT !.is_running = TRUE,
                   !.current_task = Strip(s.task_var),
                   !.start_timestamp = t]

\* start() without its early return
start_restarts(s, t) ==
    [s EXCEPT !.is_running = TRUE,
              !.current_task = Strip(s.task_var),
              !.start_timestamp = t]

start(s, t) ==
    IF s.is_running THEN s
    ELSE [s EXCEPT !.is_running = TRUE,
                   !.current_task = Strip(s.task_var),
                   !.start_timestamp = t]

\* stop() that does not bank the interval it closes
stop_loses_interval(s, t) ==
    IF ~s.is_running THEN s
    ELSE [s EXCEPT !.is_running = FALSE,
                   !.counter = s.elapsed_time_before_pause]

\* stop() that forgets the start of the interval it closes
stop_clears(s, t) ==
    IF ~s.is_running THEN s
    ELSE [s EXCEPT !.is_running = FALSE,
                   !.elapsed_time_before_pause = @ + (t - s.start_timestamp),
                   !.counter = s.elapsed_time_before_pause
                                   + (t - s.start_timestamp),
                   !.start_timestamp = None]

\* stop() that banks the interval and leaves the counter as last displayed
stop_keeps_counter(s, t) ==
    IF ~s.is_running THEN s
    ELSE [s EXCEPT !.is_running = FALSE,
                   !.elapsed_time_before_pause = @ + (t - s.start_timestamp)]

stop(s, t) ==
    IF ~s.is_running THEN s
    ELSE IF s.start_timestamp # None
         THEN LET banked == s.elapsed_time_before_pause + (t - s.start_timestamp)
              IN  [s EXCEPT !.is_running = FALSE,
                            !.elapsed_time_before_pause = banked,
                            !.counter = banked]
         ELSE [s EXCEPT !.is_running = FALSE]

\* reset() asks for confirmation above RESET_CONFIRMATION_SECONDS
ResetAsks(s) == s.counter > RESET_CONFIRMATION_SECONDS

\* reset() that leaves the banked total
reset_keeps_banked(s, confirm) ==
    IF ResetAsks(s) /\ ~confirm THEN s
    ELSE [s EXCEPT !.is_running = FALSE,
                   !.counter = 0,
                   !.start_timestamp = None,
                   !.current_task = <<>>,
                   !.task_var = <<>>,
                   !.last_logged_minute_mark = 0]

reset(s, confirm) ==
    IF ResetAsks(s) /\ ~confirm THEN s
    ELSE [s EXCEPT !.is_running = FALSE,
                   !.counter = 0,
                   !.start_timestamp = None,
                   !.elapsed_time_before_pause = 0,
                   !.current_task = <<>>,
                   !.task_var = <<>>,
                   !.last_logged_minute_mark = 0]

toggle_start_stop(s, t) ==
    IF s.is_running THEN stop(s, t) ELSE start(s, t)

\* adjust_time() that pauses a timer it has brought down to zero
adjust_time_pauses(s, seconds) ==
    [s EXCEPT !.counter = Max(0, s.counter + seconds),
              !.elapsed_time_before_pause =
                  Max(0, s.elapsed_time_before_pause + seconds),
              !.is_running = s.is_running /\ s.counter + seconds > 0]

adjust_time(s, seconds) ==
    [s EXCEPT !.counter = Max(0, s.counter + seconds),
              !.elapsed_time_before_pause =
                  Max(0, s.elapsed_time_before_pause + seconds)]

update_display(s, t) ==
    IF s.is_running /\ s.start_timestamp # None
    THEN LET c == s.elapsed_time_before_pause + (t - s.start_timestamp)
             mark == c \div LogMarkSeconds
         IN  [s EXCEPT !.counter = c,
                       !.last_logged_minute_mark =
                           IF mark > @ THEN mark ELSE @]
    ELSE s

-----------------------------------------------------------------------------
(* Text conversions: str(int), int(str), strftime, strptime *)

DigitChars == <<"0", "1", "2", "3", "4", "5", "6", "7", "8", "9">>

IsDigit(c) == \E i \in 1..10 : DigitChars[i] = c

DigitValue(c) == (CHOOSE i \in 1..10 : DigitChars[i] = c) - 1

\* str(n) for n >= 0
RECURSIVE IntToStr(_)
IntToStr(n) ==
    IF n < 10 THEN <<DigitChars[n + 1]>>
    ELSE IntToStr(n \div 10) \o <<DigitChars[(n % 10) + 1]>>

\* the %02d fields of strftime
TwoDigits(n) == <<DigitChars[((n \div 10) % 10) + 1], DigitChars[(n % 10) + 1]>>

AllDigits(t) == t # <<>> /\ \A i \in 1..Len(t) : IsDigit(t[i])

RECURSIVE DigitsValue(_)
DigitsValue(t) ==
    IF t = <<>> THEN 0
    ELSE 10 * DigitsValue(SubSeq(t, 1, Len(t) - 1)) + DigitValue(t[Len(t)])

\* int(text): surrounding whitespace and one sign are accepted; anything
\* else raises ValueError (ok = FALSE)
StrToInt(text) ==
    LET t == Strip(text)
        signed == t # <<>> /\ Head(t) \in {"+", "-"}
        body == IF signed THEN Tail(t) ELSE t
    IN  IF AllDigits(body)
        THEN [ok |-> TRUE,
              val |-> IF signed /\ Head(t) = "-" THEN 0 - DigitsValue(body)
                      ELSE DigitsValue(body)]
        ELSE [ok |-> FALSE, val |-> 0]

\* The calendar of the model is January 2025; a date is the number
\* yyyymmdd, which orders dates as datetime.date does.
DateOf(day) == 20250100 + day

\* strftime("%Y-%m-%d %H:%M:%S") of the current time
FormatTimestamp(day, t) ==
    <<"2", "0", "2", "5", "-", "0", "1", "-">> \o TwoDigits(day) \o <<" ">>
        \o TwoDigits(t \div 3600) \o <<":">> \o TwoDigits((t % 3600) \div 60)
        \o <<":">> \o TwoDigits(t % 60)

\* text.split(sep)[0]
RECURSIVE FirstPart(_, _)
FirstPart(t, sep) ==
    IF t = <<>> \/ Head(t) = sep THEN <<>>
    ELSE <<Head(t)>> \o FirstPart(Tail(t), sep)

\* text.split(sep): the list of parts
RECURSIVE Split(_, _)
Split(t, sep) ==
    LET first == FirstPart(t, sep)
    IN  IF Len(first) = Len(t) THEN <<first>>
        ELSE <<first>> \o Split(SubSeq(t, Len(first) + 2, Len(t)), sep)

IsLeap(y) == (y % 4 = 0 /\ y % 100 # 0) \/ y % 400 = 0

DaysInMonth(y, m) ==
    IF m = 2 THEN (IF IsLeap(y) THEN 29 ELSE 28)
    ELSE IF m \in {4, 6, 9, 11} THEN 30 ELSE 31

\* datetime.strptime(text, "%Y-%m-%d").date(); ok = FALSE is ValueError.
\* The text is always the part of a field before its first space.
ParseDate(text) ==
    LET parts == Split(text, "-")
        wellFormed ==
            /\ Len(parts) = 3
            /\ \A i \in 1..3 : AllDigits(parts[i])
            /\ Len(parts[1]) = 4
            /\ Len(parts[2]) \in {1, 2}
            /\ Len(parts[3]) \in {1, 2}
        y == DigitsValue(parts[1])
        m == DigitsValue(parts[2])
        d == DigitsValue(parts[3])
    IN  IF wellFormed /\ y >= 1 /\ m \in 1..12 /\ d >= 1 /\ d <= DaysInMonth(y, m)
        THEN [ok |-> TRUE, date |-> 10000 * y + 100 * m + d]
        ELSE [ok |-> FALSE, date |-> 0]

-----------------------------------------------------------------------------
(* csv.writer(f, delimiter=';', quoting=csv.QUOTE_ALL) *)

Delimiter == ";"
QuoteChar == "\""
LineTerminator == <<"\r", "\n">>

\* a field written as it is
EscapeField_as_is(t) == t

\* doublequote: every quote character inside a field is written twice
RECURSIVE EscapeField(_)
EscapeField(t) ==
    IF t = <<>> THEN <<>>
    ELSE (IF Head(t) = QuoteChar THEN <<QuoteChar, QuoteChar>> ELSE <<Head(t)>>)
             \o EscapeField(Tail(t))

QuoteField(t) == <<QuoteChar>> \o EscapeField(t) \o <<QuoteChar>>

RECURSIVE JoinFields(_)
JoinFields(fields) ==
    IF Len(fields) = 1 THEN QuoteField(fields[1])
    ELSE QuoteField(fields[1]) \o <<Delimiter>> \o JoinFields(Tail(fields))

writerow(fields) == JoinFields(fields) \o LineTerminator

\* csv.writer(f, delimiter=';'), QUOTE_MINIMAL: a field is quoted when it
\* holds the delimiter, the quote character or a line break
NeedsQuotes(t) ==
    \E i \in 1..Len(t) : t[i] \in {Delimiter, QuoteChar, "\r", "\n"}

MinimalField(t) == IF NeedsQuotes(t) THEN QuoteField(t) ELSE t

RECURSIVE JoinMinimal(_)
JoinMinimal(fields) ==
    IF Len(fields) = 1 THEN MinimalField(fields[1])
    ELSE MinimalField(fields[1]) \o <<Delimiter>> \o JoinMinimal(Tail(fields))

writerow_minimal(fields) == JoinMinimal(fields) \o LineTerminator

\* the header row of an exported history
ExportHeaderRow ==
    <<<<"D", "a", "t", "a">>, <<"C", "z", "a", "s">>,
      <<"M", "i", "n", "u", "t", "y">>,
      <<"Z", "a", "d", "a", "n", "i", "e">>>>

\* encoding='utf-8-sig': the file starts with a byte order mark, one character
ByteOrderMark == <<"BOM">>

HeaderRow == <<<<"D", "a", "t", "a">>, <<"M", "i", "n", "u", "t", "y">>,
               <<"Z", "a", "d", "a", "n", "i", "e">>>>

NoDescription == <<"B", "e", "z", " ", "o", "p", "i", "s", "u">>

-----------------------------------------------------------------------------
(* csv.reader(f, delimiter=';') over a file opened with newline="":        *)
(* the character automaton of the csv module, non-strict dialect.          *)

Newlines == {"\n", "\r"}

ParserStart == [st |-> "START_RECORD", fld |-> <<>>, row |-> <<>>]

SaveField(p, st) == [st |-> st, fld |-> <<>>, row |-> Append(p.row, p.fld)]

AddChar(p, c, st) == [p EXCEPT !.st = st, !.fld = Append(p.fld, c)]

\* parse_process_char for a character of the line
Feed(p, c) ==
    CASE p.st = "START_RECORD" /\ c \in Newlines ->
            [p EXCEPT !.st = "EAT_CRNL"]
      [] p.st \in {"START_RECORD", "START_FIELD"} /\ c \notin Newlines ->
            IF c = QuoteChar THEN [p EXCEPT !.st = "IN_QUOTED_FIELD"]
            ELSE IF c = Delimiter THEN SaveField(p, "START_FIELD")
            ELSE AddChar(p, c, "IN_FIELD")
      [] p.st = "START_FIELD" /\ c \in Newlines ->
            SaveField(p, "EAT_CRNL")
      [] p.st = "IN_FIELD" ->
            IF c \in Newlines THEN SaveField(p, "EAT_CRNL")
            ELSE IF c = Delimiter THEN SaveField(p, "START_FIELD")
            ELSE AddChar(p, c, "IN_FIELD")
      [] p.st = "IN_QUOTED_FIELD" ->
            IF c = QuoteChar THEN [p EXCEPT !.st = "QUOTE_IN_QUOTED_FIELD"]
            ELSE AddChar(p, c, "IN_QUOTED_FIELD")
      [] p.st = "QUOTE_IN_QUOTED_FIELD" ->
            IF c = QuoteChar THEN AddChar(p, c, "IN_QUOTED_FIELD")
            ELSE IF c = Delimiter THEN SaveField(p, "START_FIELD")
            ELSE IF c \in Newlines THEN SaveField(p, "EAT_CRNL")
            ELSE AddChar(p, c, "IN_FIELD")
      [] p.st = "EAT_CRNL" -> p

\* parse_process_char for the end of a line
FeedEOL(p) ==
    CASE p.st \in {"START_RECORD", "EAT_CRNL"} -> [p EXCEPT !.st = "START_RECORD"]
      [] p.st \in {"START_FIELD", "IN_FIELD", "QUOTE_IN_QUOTED_FIELD"} ->
            SaveField(p, "START_RECORD")
      [] p.st = "IN_QUOTED_FIELD" -> p

\* the file iterator ends a line after "\n", "\r\n", a lone "\r" and at the
\* end of the file
LineEndsAt(f, i) ==
    \/ i = Len(f)
    \/ f[i] = "\n"
    \/ f[i] = "\r" /\ f[i + 1] # "\n"

\* where the line that starts at f[i] ends
LineEnd(f, i) ==
    LET ends == {j \in i..Len(f) : LineEndsAt(f, j)}
    IN  CHOOSE j \in ends : \A k \in ends : j <= k

\* the characters f[lo..hi] fed to the parser one after the other; the
\* halves are fed in turn, which keeps the evaluation shallow.  Past the
\* end of the line (EAT_CRNL) no character changes the parser.
RECURSIVE FeedAll(_, _, _, _)
FeedAll(p, f, lo, hi) ==
    IF lo > hi \/ p.st = "EAT_CRNL" THEN p
    ELSE IF lo = hi THEN Feed(p, f[lo])
    ELSE LET mid == (lo + hi) \div 2
         IN  FeedAll(FeedAll(p, f, lo, mid), f, mid + 1, hi)

\* one line of the file, from f[i] on, fed to the parser: its characters and
\* then the end of the line
ReadLine(f, i, p) ==
    LET j == LineEnd(f, i)
    IN  [next |-> j + 1, p |-> FeedEOL(FeedAll(p, f, i, j))]

\* Reader_iternext, repeated to the end of the file: the list of rows
RECURSIVE ReadRows(_, _, _, _)
ReadRows(f, i, p, rows) ==
    IF i > Len(f)
    THEN IF p.st = "IN_QUOTED_FIELD" THEN Append(rows, Append(p.row, p.fld))
         ELSE rows
    ELSE LET l == ReadLine(f, i, p)
         IN  IF l.p.st = "START_RECORD"
             THEN ReadRows(f, l.next, ParserStart, Append(rows, l.p.row))
             ELSE ReadRows(f, l.next, l.p, rows)

csv_reader(f) == ReadRows(f, 1, ParserStart, <<>>)

-----------------------------------------------------------------------------
(* The log file wynik-stoper.csv and its backup *)

\* The file is kept as the list of the pieces written to it: the header
\* row, a session row (the arguments of writerow) or, in SpecMalformed, a
\* line put there by an editor.  FileText is the text of the file: the
\* pieces, each as the csv writer writes it, one after the other.
\*
\* A log that already holds more than BackupThreshold bytes of older
\* sessions keeps them as oldBytes: they lie between the header row and the
\* modelled rows, are well formed and dated before the calendar of the model.
File ==
    [exists |-> logExists, content |-> logFile, old |-> oldBytes,
     backup |-> backupFile]

SetFile(f) ==
    /\ logExists' = f.exists
    /\ logFile' = f.content
    /\ oldBytes' = f.old
    /\ backupFile' = f.backup

HeaderPiece == [kind |-> "header", day |-> 0, t |-> 0, minutes |-> 0, text |-> <<>>]

RowPiece(day, t, minutes, task) ==
    [kind |-> "row", day |-> day, t |-> t, minutes |-> minutes, text |-> task]

RawPiece(text) == [kind |-> "raw", day |-> 0, t |-> 0, minutes |-> 0, text |-> text]

\* the fields of a session row: timestamp, minutes, task_desc
RowFields(piece) ==
    <<FormatTimestamp(piece.day, piece.t), IntToStr(piece.minutes), piece.text>>

\* The lines an editor leaves malformed: a field short, a field too many,
\* minutes that are no integer, a date that is none.
MalformedKinds == {"two_fields", "four_fields", "bad_minutes", "bad_date"}

NoDate ==
    <<"2", "0", "2", "5", "-", "1", "3", "-", "0", "1", " ",
      "0", "0", ":", "0", "1", ":", "0", "0">>

MalformedFields(kind) ==
    CASE kind = "two_fields" -> <<FormatTimestamp(1, 60), IntToStr(5)>>
      [] kind = "four_fields" ->
             <<FormatTimestamp(1, 60), IntToStr(5), <<"a">>, <<"b">>>>
      [] kind = "bad_minutes" -> <<FormatTimestamp(1, 60), <<"x">>, <<"a">>>>
      [] kind = "bad_date" -> <<NoDate, IntToStr(5), <<"a">>>>

\* The first revision keeps its log as lines of text, the fields of a record
\* divided by tabs: strftime("%Y-%m-%d %H:%M"), the minutes and the task.
FormatTimestampMinutes(day, t) ==
    <<"2", "0", "2", "5", "-", "0", "1", "-">> \o TwoDigits(day) \o <<" ">>
        \o TwoDigits(t \div 3600) \o <<":">> \o TwoDigits((t % 3600) \div 60)

TabPiece(day, t, minutes, task) ==
    [kind |-> "tab_line", day |-> day, t |-> t, minutes |-> minutes, text |-> task]

\* f"{timestamp}\t{minutes}\t{task_desc}\n"
TabLine(piece) ==
    FormatTimestampMinutes(piece.day, piece.t) \o <<"\t">>
        \o IntToStr(piece.minutes) \o <<"\t">> \o piece.text \o <<"\n">>

\* the rows export_history writes: the header row, and for a record its
\* date, time, minutes and task
ExportHeaderPiece ==
    [kind |-> "export_header", day |-> 0, t |-> 0, minutes |-> 0, text |-> <<>>]

ExportPiece(date_part, time_part, minutes, task) ==
    [kind |-> "export", day |-> 0, t |-> 0, minutes |-> minutes,
     text |-> <<date_part, time_part, task>>]

ExportFields(piece) ==
    <<piece.text[1], piece.text[2], IntToStr(piece.minutes), piece.text[3]>>

PieceText(piece) ==
    CASE piece.kind = "header" -> writerow(HeaderRow)
      [] piece.kind = "row" -> writerow(RowFields(piece))
      [] piece.kind = "raw" -> writerow(MalformedFields(piece.text))
      [] piece.kind = "export_header" ->
             ByteOrderMark \o writerow_minimal(ExportHeaderRow)
      [] piece.kind = "export" -> writerow_minimal(ExportFields(piece))
      [] piece.kind = "tab_line" -> TabLine(piece)

RECURSIVE PiecesText(_)
PiecesText(pieces) ==
    IF pieces = <<>> THEN <<>>
    ELSE PieceText(Head(pieces)) \o PiecesText(Tail(pieces))

FileText(f) == PiecesText(f.content)

\* log_path.stat().st_size
FileSize(f) == f.old + Len(FileText(f))

\* a variant of save_to_log that writes the header row only when the file
\* is missing
save_to_log_header_if_missing(f, task, day, t, minutes, copyOk, openOk) ==
    LET task_desc == IF task # <<>> THEN task ELSE NoDescription
        st_size == FileSize(f)
        file_exists == f.exists
        backs_up == f.exists /\ st_size > BackupThreshold
        copied == IF backs_up
                  THEN [f EXCEPT !.backup = <<[old |-> f.old, content |-> f.content]>>]
                  ELSE f
        written == (IF file_exists THEN <<>> ELSE <<HeaderPiece>>)
                       \o <<RowPiece(day, t, minutes, task_desc)>>
    IN  IF backs_up /\ ~copyOk
        THEN [ok |-> FALSE, io |-> "backup_failed", file |-> f]
        ELSE IF ~openOk
        THEN [ok |-> FALSE, io |-> "open_failed", file |-> copied]
        ELSE [ok |-> TRUE, io |-> "written",
              file |-> [copied EXCEPT !.exists = TRUE, !.content = @ \o written]]

\* save_to_log: the result is the returned flag and the files afterwards.
\* copyOk and openOk are the outcomes of shutil.copy2 and of open(..., "a").
save_to_log(f, task, day, t, minutes, copyOk, openOk) ==
    LET task_desc == IF task # <<>> THEN task ELSE NoDescription
        st_size == FileSize(f)
        file_exists == f.exists /\ st_size > 0
        backs_up == f.exists /\ st_size > BackupThreshold
        copied == IF backs_up
                  THEN [f EXCEPT !.backup = <<[old |-> f.old, content |-> f.content]>>]
                  ELSE f
        written == (IF file_exists THEN <<>> ELSE <<HeaderPiece>>)
                       \o <<RowPiece(day, t, minutes, task_desc)>>
    IN  IF backs_up /\ ~copyOk
        THEN [ok |-> FALSE, io |-> "backup_failed", file |-> f]
        ELSE IF ~openOk
        THEN [ok |-> FALSE, io |-> "open_failed", file |-> copied]
        ELSE [ok |-> TRUE, io |-> "written",
              file |-> [copied EXCEPT !.exists = TRUE, !.content = @ \o written]]

\* next(reader, None): the rows after the first
DataRows(f) ==
    LET rows == csv_reader(FileText(f))
    IN  IF rows = <<>> THEN <<>> ELSE Tail(rows)

\* the sum that takes the minutes of every date
RECURSIVE SumRows_any_date(_, _, _)
SumRows_any_date(rows, i, date) ==
    IF i > Len(rows) THEN 0
    ELSE LET row == rows[i]
             d == ParseDate(FirstPart(row[1], " "))
             m == StrToInt(row[2])
             counted == Len(row) >= 3 /\ d.ok /\ m.ok
         IN  (IF counted THEN m.val ELSE 0)
                 + SumRows_any_date(rows, i + 1, date)

RECURSIVE SumRows(_, _, _)
SumRows(rows, i, date) ==
    IF i > Len(rows) THEN 0
    ELSE LET row == rows[i]
             d == ParseDate(FirstPart(row[1], " "))
             m == StrToInt(row[2])
             counted == Len(row) >= 3 /\ d.ok /\ d.date = date /\ m.ok
         IN  (IF counted THEN m.val ELSE 0) + SumRows(rows, i + 1, date)

read_and_sum_today(f, day) ==
    IF ~f.exists THEN 0 ELSE SumRows(DataRows(f), 1, DateOf(day))

\* the rows load_history_data keeps, in file order, each with its date
RECURSIVE KeptRows(_, _, _, _)
KeptRows(rows, i, start_date, end_date) ==
    IF i > Len(rows) THEN <<>>
    ELSE LET row == rows[i]
             m == StrToInt(row[2])
             d == ParseDate(FirstPart(row[1], " "))
             kept == /\ Len(row) >= 3
                     /\ m.ok
                     /\ d.ok
                     /\ start_date <= d.date
                     /\ d.date <= end_date
         IN  (IF kept
              THEN <<[date |-> d.date,
                      entry |-> <<row[1], m.val, row[3]>>]>>
              ELSE <<>>) \o KeptRows(rows, i + 1, start_date, end_date)

\* a variant of EntriesOf that lists the newest entry of a date first
RECURSIVE EntriesOf_newest_first(_, _)
EntriesOf_newest_first(kept, date) ==
    IF kept = <<>> THEN <<>>
    ELSE EntriesOf_newest_first(Tail(kept), date)
             \o (IF Head(kept).date = date THEN <<Head(kept).entry>> ELSE <<>>)

RECURSIVE EntriesOf(_, _)
EntriesOf(kept, date) ==
    IF kept = <<>> THEN <<>>
    ELSE (IF Head(kept).date = date THEN <<Head(kept).entry>> ELSE <<>>)
             \o EntriesOf(Tail(kept), date)

\* load_history_data: the dict date -> list of (ts, mins, task)
load_history_data(f, start_date, end_date) ==
    IF ~f.exists THEN <<>>
    ELSE LET kept == KeptRows(DataRows(f), 1, start_date, end_date)
             dates == {kept[i].date : i \in 1..Len(kept)}
         IN  [d \in dates |-> EntriesOf(kept, d)]

\* export_history: one exported row for an entry (ts, mins, task)
ExportRowOf(entry) ==
    LET ts == entry[1]
        parts == Split(ts, " ")
    IN  IF \E i \in 1..Len(ts) : ts[i] = " "
        THEN ExportPiece(parts[1], parts[2], entry[2], entry[3])
        ELSE ExportPiece(ts, <<>>, entry[2], entry[3])

\* for date_obj in sorted(data.keys()): for ts, mins, task in data[date_obj]
RECURSIVE ExportRows(_, _)
ExportRows(data, dates) ==
    IF dates = {} THEN <<>>
    ELSE LET d == CHOOSE x \in dates : \A y \in dates : x <= y
         IN  [i \in 1..Len(data[d]) |-> ExportRowOf(data[d][i])]
                 \o ExportRows(data, dates \ {d})

\* export_history: the files after the export.  target is what the file
\* dialog returns: nothing ("cancel"), the path of the log itself ("log")
\* or another path ("elsewhere"), whose file is outside the model.
export_history(f, start_date, end_date, target) ==
    IF target # "log" THEN f
    ELSE LET data == load_history_data(f, start_date, end_date)
         IN  [f EXCEPT !.exists = TRUE,
                       !.old = 0,
                       !.content = <<ExportHeaderPiece>>
                                       \o ExportRows(data, DOMAIN data)]

-----------------------------------------------------------------------------
(* The first revision: save_to_log and load_history_data over wynik.txt *)

FirstBackupThreshold == 1024

\* save_to_log of the first revision: one line appended to the file
save_to_log_first(f, task, day, t, minutes, copyOk, openOk) ==
    LET task_desc == IF Strip(task) # <<>> THEN task ELSE NoDescription
        backs_up == f.exists /\ FileSize(f) > FirstBackupThreshold
        copied == IF backs_up
                  THEN [f EXCEPT !.backup = <<[old |-> f.old, content |-> f.content]>>]
                  ELSE f
    IN  IF (backs_up /\ ~copyOk) \/ ~openOk
        THEN [ok |-> FALSE, io |-> "failed", file |-> f]
        ELSE [ok |-> TRUE, io |-> "written",
              file |-> [copied EXCEPT
                           !.exists = TRUE,
                           !.content = Append(@, TabPiece(day, t, minutes, task_desc))]]

\* for line in f: the lines of the text, each with its line end
RECURSIVE FileLines(_, _)
FileLines(text, i) ==
    IF i > Len(text) THEN <<>>
    ELSE LET j == LineEnd(text, i)
         IN  <<SubSeq(text, i, j)>> \o FileLines(text, j + 1)

\* the lines load_history_data of the first revision keeps, in file order,
\* each with its date
RECURSIVE KeptLines(_, _, _, _)
KeptLines(lines, i, start_date, end_date) ==
    IF i > Len(lines) THEN <<>>
    ELSE LET line == Strip(lines[i])
             parts == Split(line, "\t")
             m == StrToInt(parts[2])
             task_desc == IF Len(parts) > 2 THEN parts[3] ELSE NoDescription
             d == ParseDate(FirstPart(parts[1], " "))
             kept == /\ line # <<>>
                     /\ Len(parts) >= 2
                     /\ m.ok
                     /\ d.ok
                     /\ start_date <= d.date
                     /\ d.date <= end_date
         IN  (IF kept
              THEN <<[date |-> d.date,
                      entry |-> <<parts[1], m.val, task_desc>>]>>
              ELSE <<>>) \o KeptLines(lines, i + 1, start_date, end_date)

\* load_history_data of the first revision: the dict date -> list of
\* (timestamp, minutes, task_desc)
load_history_data_first(f, start_date, end_date) ==
    IF ~f.exists THEN <<>>
    ELSE LET kept == KeptLines(FileLines(FileText(f), 1), 1, start_date, end_date)
             dates == {kept[i].date : i \in 1..Len(kept)}
         IN  [d \in dates |-> EntriesOf(kept, d)]

-----------------------------------------------------------------------------
(* Inputs *)

\* texts typed into the task entry
TaskTexts == {<<>>, <<"\"", "a", ";", "\n", "b">>}

\* the session rows of the log, in the order they were appended
RECURSIVE SessionRows(_)
SessionRows(pieces) ==
    IF pieces = <<>> THEN <<>>
    ELSE (IF Head(pieces).kind = "row" THEN <<Head(pieces)>> ELSE <<>>)
             \o SessionRows(Tail(pieces))

Appended == SessionRows(logFile)

\* last: the handler that ran last.  res is its outcome, io what it found
\* or what its file operations did, arg its argument and, for reset and
\* add_to_log, pre the elapsed time when it was called.
\* NoOp after construction and after the clock, the calendar or the
\* keyboard has acted.
Op(op, res, io, arg, pre) ==
    [op |-> op, res |-> res, io |-> io, arg |-> arg, pre |-> pre]

NoOp == Op("", "", "", 0, 0)

-----------------------------------------------------------------------------
(* The configuration: config-stoper.json and self.config *)

\* A JSON value as json.load returns it: an int, a bool, a float (n is
\* its value, a whole number here), a str or None; Missing stands for a
\* key that the mapping does not have.
JInt(n) == [t |-> "int", n |-> n, s |-> ""]

JBool(b) == [t |-> "bool", n |-> IF b THEN 1 ELSE 0, s |-> ""]

JFloat(n) == [t |-> "float", n |-> n, s |-> ""]

JStr(s) == [t |-> "str", n |-> 0, s |-> s]

JNull == [t |-> "null", n |-> 0, s |-> ""]

Missing == [t |-> "missing", n |-> 0, s |-> ""]

\* isinstance(value, int): bool is a subclass of int
IsInstanceInt(value) == value.t \in {"int", "bool"}

\* bool(value)
Truthy(value) ==
    CASE value.t \in {"int", "bool", "float"} -> value.n # 0
      [] value.t = "str" -> value.s # ""
      [] OTHER -> FALSE

IntKeys == {"daily_goal", "reminder_interval", "reminder_duration"}

BoolKeys == {"auto_save", "sound_enabled", "window_always_on_top"}

ConfigKeys == IntKeys \cup BoolKeys \cup {"theme"}

\* In self.config the three numbers are kept as json.load gave them (an
\* int, or True), the three switches are bools and theme is a str.
default_config ==
    [daily_goal |-> JInt(180), reminder_interval |-> JInt(120),
     reminder_duration |-> JInt(15000), auto_save |-> TRUE,
     sound_enabled |-> FALSE, window_always_on_top |-> FALSE,
     theme |-> "default"]

\* a variant of validate_key that keeps any int for a number, positive or
\* not
validate_key_any_int(key, value, default_value) ==
    IF value = Missing THEN default_value
    ELSE IF key \in IntKeys
         THEN (IF IsInstanceInt(value) THEN value ELSE default_value)
    ELSE IF key \in BoolKeys THEN Truthy(value)
    ELSE IF key = "theme" /\ value.t = "str" THEN value.s
    ELSE default_value

\* validate_config, the body of its loop for one key of default_config
validate_key(key, value, default_value) ==
    IF value = Missing THEN default_value
    ELSE IF key \in IntKeys
         THEN (IF IsInstanceInt(value) /\ value.n > 0 THEN value
               ELSE default_value)
    ELSE IF key \in BoolKeys THEN Truthy(value)
    ELSE IF key = "theme" /\ value.t = "str" THEN value.s
    ELSE default_value

validate_config(loaded, default) ==
    [key \in ConfigKeys |-> validate_key(key, loaded[key], default[key])]

\* json.dump(config): the mapping written to the file
ToJson(cfg) ==
    [key \in ConfigKeys |->
        IF key \in IntKeys THEN cfg[key]
        ELSE IF key \in BoolKeys THEN JBool(cfg[key])
        ELSE JStr(cfg[key])]

\* config-stoper.json: absent, not readable as JSON, or a mapping
NoMapping == [key \in ConfigKeys |-> Missing]

NoConfigFile == [kind |-> "absent", map |-> NoMapping]

BrokenConfigFile == [kind |-> "broken", map |-> NoMapping]

MappingFile(map) == [kind |-> "mapping", map |-> map]

\* save_config: writeOk is whether open(config_path, "w") succeeds
save_config(f, cfg, writeOk) ==
    IF writeOk THEN [ok |-> TRUE, file |-> MappingFile(ToJson(cfg))]
    ELSE [ok |-> FALSE, file |-> f]

\* load_config: the configuration returned and the file afterwards
load_config(f, writeOk) ==
    IF f.kind = "absent"
    THEN [config |-> default_config,
          file |-> save_config(f, default_config, writeOk).file]
    ELSE IF f.kind = "broken"
    THEN [config |-> default_config, file |-> f]
    ELSE [config |-> validate_config(f.map, default_config), file |-> f]

\* apply_config_changes: the value of self.daily_goal
apply_config_changes(cfg) == cfg.daily_goal

\* _save_config_from_dialog without the test for positive values
save_config_from_dialog_any_int(cfg, goal, f, vars_dict, writeOk) ==
    LET new_goal == StrToInt(vars_dict.goal)
        new_interval == StrToInt(vars_dict.rem_interval)
        new_duration == StrToInt(vars_dict.rem_duration)
    IN  IF ~new_goal.ok \/ ~new_interval.ok \/ ~new_duration.ok
        THEN [config |-> cfg, daily_goal |-> goal, file |-> f,
              res |-> "rejected"]
        ELSE LET updated == [cfg EXCEPT
                     !.daily_goal = JInt(new_goal.val),
                     !.reminder_interval = JInt(new_interval.val),
                     !.reminder_duration = JInt(new_duration.val),
                     !.auto_save = vars_dict.auto_save,
                     !.sound_enabled = vars_dict.sound,
                     !.window_always_on_top = vars_dict.on_top,
                     !.theme = vars_dict.theme]
                 saved == save_config(f, updated, writeOk)
             IN  [config |-> updated,
                  daily_goal |-> apply_config_changes(updated),
                  file |-> saved.file,
                  res |-> IF saved.ok THEN "saved" ELSE "not_written"]

\* _create_config_vars: the variables of the dialog, here with what the
\* user has put into the widgets that are enabled
create_config_vars(cfg, goal_text, interval_text, duration_text, auto_save, on_top) ==
    [goal |-> goal_text, auto_save |-> auto_save, on_top |-> on_top,
     rem_interval |-> interval_text, rem_duration |-> duration_text,
     sound |-> cfg.sound_enabled, theme |-> cfg.theme]

\* _save_config_from_dialog: the texts and switches of the dialog are
\* checked, then applied and written
save_config_from_dialog(cfg, goal, f, vars_dict, writeOk) ==
    LET new_goal == StrToInt(vars_dict.goal)
        new_interval == StrToInt(vars_dict.rem_interval)
        new_duration == StrToInt(vars_dict.rem_duration)
    IN  IF \/ ~new_goal.ok \/ ~new_interval.ok \/ ~new_duration.ok
           \/ new_goal.val <= 0
           \/ new_interval.val <= 0
           \/ new_duration.val <= 0
        THEN [config |-> cfg, daily_goal |-> goal, file |-> f,
              res |-> "rejected"]
        ELSE LET updated == [cfg EXCEPT
                     !.daily_goal = JInt(new_goal.val),
                     !.reminder_interval = JInt(new_interval.val),
                     !.reminder_duration = JInt(new_duration.val),
                     !.auto_save = vars_dict.auto_save,
                     !.sound_enabled = vars_dict.sound,
                     !.window_always_on_top = vars_dict.on_top,
                     !.theme = vars_dict.theme]
                 saved == save_config(f, updated, writeOk)
             IN  [config |-> updated,
                  daily_goal |-> apply_config_changes(updated),
                  file |-> saved.file,
                  res |-> IF saved.ok THEN "saved" ELSE "not_written"]

-----------------------------------------------------------------------------
(* The progress of the day *)

COLOR_RED_DARK == "#E74C3C"

COLOR_ORANGE_LIGHT == "#F39C12"

COLOR_GREEN_LIGHT == "#2ECC71"

COLOR_GREEN_DARK == "#27AE60"

\* A percentage is the fraction num / den, den > 0.  The code computes it
\* in floating point; for the minutes and goals of a day the comparisons
\* with 25, 50, 75 and 100 come out as for the exact fraction.
Percent(n) == [num |-> n, den |-> 1]

PercentLess(p, q) == p.num * q.den < q.num * p.den

PercentEq(p, q) == p.num * q.den = q.num * p.den

\* a variant of percentage_of that stops at 100
percentage_capped(total_with_current, goal) ==
    IF goal.n > 0
    THEN (IF total_with_current < goal.n
          THEN [num |-> total_with_current * 100, den |-> goal.n]
          ELSE Percent(100))
    ELSE Percent(0)

\* update_progress: (total_with_current / daily_goal) * 100, or 0 when
\* the goal is not positive
percentage_of(total_with_current, goal) ==
    IF goal.n > 0 THEN [num |-> total_with_current * 100, den |-> goal.n]
    ELSE Percent(0)

\* update_progress: the word shown with the label of the progress bar
\* (written here without the Polish letters)
progress_status(percentage) ==
    IF PercentLess(percentage, Percent(25)) THEN "(Poczatek)"
    ELSE IF PercentLess(percentage, Percent(75)) THEN "(Dobra passa)"
    ELSE IF PercentLess(percentage, Percent(100)) THEN "(Juz prawie!)"
    ELSE "(Cel osiagniety!)"

\* a variant of get_progress_color without the orange band
get_progress_color_no_orange(percentage) ==
    IF PercentLess(percentage, Percent(25)) THEN COLOR_RED_DARK
    ELSE IF PercentLess(percentage, Percent(75)) THEN COLOR_GREEN_LIGHT
    ELSE COLOR_GREEN_DARK

get_progress_color(percentage) ==
    IF PercentLess(percentage, Percent(25)) THEN COLOR_RED_DARK
    ELSE IF PercentLess(percentage, Percent(50)) THEN COLOR_ORANGE_LIGHT
    ELSE IF PercentLess(percentage, Percent(75)) THEN COLOR_GREEN_LIGHT
    ELSE COLOR_GREEN_DARK

\* min(percentage, 100)
PercentMin(p, q) == IF PercentLess(q, p) THEN q ELSE p

\* update_progress: what it puts on the screen
update_progress(s, f, goal, day) ==
    LET total_minutes == read_and_sum_today(f, day)
        current_minutes == s.counter \div SecondsPerMinute
        total_with_current == total_minutes + current_minutes
        percentage == percentage_of(total_with_current, goal)
    IN  [total_with_current |-> total_with_current,
         percentage |-> percentage,
         status |-> progress_status(percentage),
         bar |-> PercentMin(percentage, Percent(100)),
         color |-> get_progress_color(percentage)]

-----------------------------------------------------------------------------
(* The reminder: a popup for a timer that is not running *)

REMINDER_CHECK_MS == 30000

MsPerSecond == 1000

\* the three fields of the reminder as one record
Reminder ==
    [window |-> reminder_window, last |-> last_reminder_time,
     queue |-> after_queue]

SetReminder(r) ==
    /\ reminder_window' = r.window
    /\ last_reminder_time' = r.last
    /\ after_queue' = r.queue

\* root.after(ms, fn) at time t: popup is the popup that a hide_reminder
\* callback was made for
After(r, t, ms, fn, popup) ==
    [r EXCEPT !.queue = @ \cup {[fn |-> fn, at |-> t * MsPerSecond + ms,
                                 popup |-> popup]}]

hide_reminder(r) == [r EXCEPT !.window = None]

show_reminder(r, cfg, t) ==
    After([hide_reminder(r) EXCEPT !.window = t], t,
          cfg.reminder_duration.n, "hide_reminder", t)

\* a variant of reminder_check that does not look at is_running
reminder_check_also_running(running, r, cfg, t) ==
    After(IF /\ (r.last = None \/ t - r.last >= cfg.reminder_interval.n)
             /\ r.window = None
          THEN show_reminder([r EXCEPT !.last = t], cfg, t)
          ELSE r,
          t, REMINDER_CHECK_MS, "reminder_check", None)

reminder_check(running, r, cfg, t) ==
    After(IF /\ ~running
             /\ (r.last = None \/ t - r.last >= cfg.reminder_interval.n)
             /\ r.window = None
          THEN show_reminder([r EXCEPT !.last = t], cfg, t)
          ELSE r,
          t, REMINDER_CHECK_MS, "reminder_check", None)

\* __init__ calls reminder_check() once, at time t
ReminderAtLaunch(cfg, t) ==
    reminder_check(FALSE, [window |-> None, last |-> None, queue |-> {}],
                   cfg, t)

InitReminder ==
    /\ reminder_window = ReminderAtLaunch(config, 0).window
    /\ last_reminder_time = ReminderAtLaunch(config, 0).last
    /\ after_queue = ReminderAtLaunch(config, 0).queue

-----------------------------------------------------------------------------
(* The state after StopwatchApp.__init__.  Init is the first run: no log  *)
(* file yet, the default configuration.  InitInstalled is a later run:    *)
(* the log is absent, empty or long, auto_save is as the user left it.    *)

InitWith(kinds, auto_saves) ==
    /\ is_running = FALSE
    /\ counter = 0
    /\ start_timestamp = None
    /\ elapsed_time_before_pause = 0
    /\ current_task = <<>>
    /\ task_var = <<>>
    /\ last_logged_minute_mark = 0
    /\ \E a \in auto_saves : config = [default_config EXCEPT !.auto_save = a]
    /\ daily_goal = config.daily_goal
    /\ InitReminder
    /\ configFile = save_config(NoConfigFile, config, TRUE).file
    /\ now = 0
    /\ today = 1
    /\ tick_due = FALSE
    /\ \E kind \in kinds :
          /\ logExists = (kind # "absent")
          /\ logFile = IF kind = "long" THEN <<HeaderPiece>> ELSE <<>>
          /\ oldBytes = IF kind = "long" THEN BackupThreshold ELSE 0
    /\ backupFile = <<>>
    /\ last = NoOp

Init == InitWith({"absent"}, {TRUE})

InitInstalled == InitWith({"absent", "empty", "long"}, BOOLEAN)

-----------------------------------------------------------------------------
(* Environment: the clock, the calendar, the keyboard *)

TimePasses(dt) ==
    /\ ~tick_due
    /\ now + dt <= 30 * MaxHalfMinutes
    /\ now' = now + dt
    /\ tick_due' = TRUE
    /\ last' = NoOp
    /\ UNCHANGED <<timerVars, configVars, reminderVars, today, fileVars>>

\* the date datetime.now() gives is the system's: it moves on at midnight
\* and either way when the clock is set
SetDate(day) ==
    /\ day # today
    /\ today' = day
    /\ last' = NoOp
    /\ UNCHANGED <<timerVars, configVars, reminderVars, now, tick_due, fileVars>>

\* the task entry is disabled while the timer runs (update_ui_state)
TypeTask(text) ==
    /\ ~is_running
    /\ text # task_var
    /\ SetSelf([Self EXCEPT !.task_var = text])
    /\ last' = NoOp
    /\ UNCHANGED <<configVars, reminderVars, now, today, tick_due, fileVars>>

-----------------------------------------------------------------------------
(* Handlers *)

Start ==
    /\ SetSelf(start(Self, now))
    /\ SetReminder(IF is_running THEN Reminder ELSE hide_reminder(Reminder))
    /\ last' = Op("start", IF is_running THEN "noop" ELSE "started",
                   IF ~is_running /\ reminder_window # None
                   THEN "hid_reminder" ELSE "", 0, 0)
    /\ UNCHANGED <<configVars, now, today, tick_due, fileVars>>

Stop ==
    /\ SetSelf(stop(Self, now))
    /\ last' = Op("stop", IF is_running THEN "stopped" ELSE "noop", "", 0, 0)
    /\ UNCHANGED <<configVars, reminderVars, now, today, tick_due, fileVars>>

ToggleStartStop ==
    /\ SetSelf(toggle_start_stop(Self, now))
    /\ last' = Op("toggle_start_stop",
                   IF is_running THEN "stopped" ELSE "started", "", 0, 0)
    /\ SetReminder(IF is_running THEN Reminder ELSE hide_reminder(Reminder))
    /\ UNCHANGED <<configVars, now, today, tick_due, fileVars>>

\* confirm: the answer to the askyesno dialog, when reset() shows it
Reset(confirm) ==
    /\ SetSelf(reset(Self, confirm))
    /\ last' = Op("reset",
                   IF ResetAsks(Self) /\ ~confirm THEN "declined" ELSE "done",
                   IF is_running THEN "was_running" ELSE "was_paused",
                   0, Elapsed)
    /\ UNCHANGED <<configVars, reminderVars, now, today, tick_due, fileVars>>

\* adjust_time(seconds) brings the displayed or the elapsed time to its
\* floor of zero
ClampsElapsed(s, t, seconds) ==
    \/ s.counter + seconds < 0
    \/ ElapsedOf(s, t) + seconds < 0

AdjustTime(seconds) ==
    /\ counter + seconds <= 60 * MaxMinutes
    /\ SetSelf(adjust_time(Self, seconds))
    /\ last' = Op("adjust_time", "", "", seconds, 0)
    /\ UNCHANGED <<configVars, reminderVars, now, today, tick_due, fileVars>>

\* the 200 ms callback; it is modelled when it has something to do
UpdateDisplay ==
    /\ tick_due \/ update_display(Self, now) # Self
    /\ SetSelf(update_display(Self, now))
    /\ tick_due' = FALSE
    /\ last' = Op("update_display", "", "", 0, 0)
    /\ UNCHANGED <<configVars, reminderVars, now, today, fileVars>>

\* a variant of add_to_log that pauses the timer before it looks at the
\* minutes
add_to_log_stops_first(s, f, cfg, day, t, copyOk, openOk, confirm) ==
    LET minutes == s.counter \div SecondsPerMinute
        stopped == IF s.is_running THEN stop(s, t) ELSE s
        saved == save_to_log(f, stopped.current_task, day, t, minutes,
                             copyOk, openOk)
    IN  IF minutes < 1
        THEN [self |-> stopped, file |-> f, res |-> "too_short", io |-> ""]
        ELSE IF saved.ok
        THEN [self |-> IF cfg.auto_save THEN reset(stopped, confirm)
                       ELSE stopped,
              file |-> saved.file, res |-> "saved", io |-> saved.io]
        ELSE [self |-> stopped, file |-> saved.file, res |-> "failed",
              io |-> saved.io]

\* add_to_log as a function of the timer and the files
add_to_log(s, f, cfg, day, t, copyOk, openOk, confirm) ==
    LET minutes == s.counter \div SecondsPerMinute
        stopped == IF s.is_running THEN stop(s, t) ELSE s
        saved == save_to_log(f, stopped.current_task, day, t, minutes,
                             copyOk, openOk)
    IN  IF minutes < 1
        THEN [self |-> s, file |-> f, res |-> "too_short", io |-> ""]
        ELSE IF saved.ok
        THEN [self |-> IF cfg.auto_save THEN reset(stopped, confirm)
                       ELSE stopped,
              file |-> saved.file, res |-> "saved", io |-> saved.io]
        ELSE [self |-> stopped, file |-> saved.file, res |-> "failed",
              io |-> saved.io]

AddToLog(copyOk, openOk, confirm) ==
    \E r \in {add_to_log(Self, File, config, today, now, copyOk, openOk, confirm)} :
        /\ SetSelf(r.self)
        /\ SetFile(r.file)
        /\ last' = Op("add_to_log", r.res, r.io, 0, Elapsed)
        /\ UNCHANGED <<configVars, reminderVars, now, today, tick_due>>

\* on_closing as a function of the state.  quit and save are the answers
\* to its two questions; io tells whether the second one was asked.
on_closing(s, f, cfg, r, day, t, quit, save, copyOk, openOk, confirm) ==
    LET asks == s.counter > CLOSE_ASK_SECONDS /\ ~cfg.auto_save
        logged == add_to_log(s, f, cfg, day, t, copyOk, openOk, confirm)
    IN  IF s.is_running /\ ~quit
        THEN [self |-> s, file |-> f, reminder |-> r, res |-> "kept_open",
              io |-> ""]
        ELSE [self |-> IF asks /\ save THEN logged.self ELSE s,
              file |-> IF asks /\ save THEN logged.file ELSE f,
              reminder |-> hide_reminder(r),
              res |-> "destroyed",
              io |-> IF ~asks THEN "not_asked"
                     ELSE IF save THEN "asked_yes" ELSE "asked_no"]

\* pre of last is the counter on_closing found
OnClosing(quit, save, copyOk, openOk, confirm) ==
    \E r \in {on_closing(Self, File, config, Reminder, today, now, quit, save,
                         copyOk, openOk, confirm)} :
        /\ SetSelf(r.self)
        /\ SetFile(r.file)
        /\ SetReminder(r.reminder)
        /\ last' = Op("on_closing", r.res, r.io, 0, counter)
        /\ UNCHANGED <<configVars, now, today, tick_due>>

\* root.destroy() has ended the main loop
Destroyed == last.op = "on_closing" /\ last.res = "destroyed"

\* a text of the dialog that int() accepts and that is positive
IsPositiveIntText(text) == StrToInt(text).ok /\ StrToInt(text).val > 0

\* show_config and its button Zapisz: sound and theme cannot be changed in
\* the dialog (their widgets are disabled) and are written back as they
\* were read.  io of last tells whether the three texts were all positive
\* integers.
SaveConfigFromDialog(goal_text, interval_text, duration_text, auto_save, on_top, writeOk) ==
    \E r \in {save_config_from_dialog(config, daily_goal, configFile,
                   create_config_vars(config, goal_text, interval_text,
                       duration_text, auto_save, on_top), writeOk)} :
        /\ config' = r.config
        /\ daily_goal' = r.daily_goal
        /\ configFile' = r.file
        /\ last' = Op("save_config_from_dialog", r.res,
                       IF /\ IsPositiveIntText(goal_text)
                          /\ IsPositiveIntText(interval_text)
                          /\ IsPositiveIntText(duration_text)
                       THEN "positive" ELSE "not_positive",
                       0, 0)
        /\ UNCHANGED <<timerVars, reminderVars, now, today, tick_due, fileVars>>

\* The program is closed and launched again, possibly after the user has
\* edited config-stoper.json: __init__ loads the configuration.
Relaunch(f, writeOk) ==
    /\ is_running' = FALSE
    /\ counter' = 0
    /\ start_timestamp' = None
    /\ elapsed_time_before_pause' = 0
    /\ current_task' = <<>>
    /\ task_var' = <<>>
    /\ last_logged_minute_mark' = 0
    /\ config' = load_config(f, writeOk).config
    /\ configFile' = load_config(f, writeOk).file
    /\ daily_goal' = config'.daily_goal
    /\ SetReminder(ReminderAtLaunch(load_config(f, writeOk).config, now))
    /\ last' = Op("load_config", f.kind, "", 0, 0)
    /\ UNCHANGED <<now, today, tick_due, fileVars>>

\* update_progress: the progress bar, its label and the sum label are
\* redrawn; res and io of last are the status and the colour shown, arg is
\* the total of minutes
UpdateProgress ==
    /\ last' = Op("update_progress",
                   update_progress(Self, File, daily_goal, today).status,
                   update_progress(Self, File, daily_goal, today).color,
                   update_progress(Self, File, daily_goal, today).total_with_current,
                   0)
    /\ UNCHANGED <<timerVars, configVars, reminderVars, now, today, tick_due, fileVars>>

\* the callbacks that the event loop may run now: those that are due and
\* that no other callback precedes
DueCallbacks ==
    {c \in after_queue :
        /\ c.at <= now * MsPerSecond
        /\ \A d \in after_queue : c.at <= d.at}

\* the event loop runs the reminder_check callback
ReminderCheck ==
    \E c \in DueCallbacks :
        /\ c.fn = "reminder_check"
        /\ SetReminder(reminder_check(is_running,
               [Reminder EXCEPT !.queue = @ \ {c}], config, now))
        /\ last' = Op("reminder_check",
                       IF reminder_window' # reminder_window THEN "shown"
                       ELSE "quiet", "", 0, 0)
        /\ UNCHANGED <<timerVars, configVars, now, today, tick_due, fileVars>>

\* the event loop runs a hide_reminder callback that show_reminder left;
\* arg of last is the popup it was left for, pre the popup on the screen
AutoHide ==
    \E c \in DueCallbacks :
        /\ c.fn = "hide_reminder"
        /\ SetReminder(hide_reminder([Reminder EXCEPT !.queue = @ \ {c}]))
        /\ last' = Op("auto_hide",
                       IF reminder_window # None THEN "closed" ELSE "nothing",
                       "", c.popup, reminder_window)
        /\ UNCHANGED <<timerVars, configVars, now, today, tick_due, fileVars>>

\* the user clicks on the popup
ClickReminder ==
    /\ reminder_window # None
    /\ SetReminder(hide_reminder(Reminder))
    /\ last' = Op("click_reminder", "", "", 0, reminder_window)
    /\ UNCHANGED <<timerVars, configVars, now, today, tick_due, fileVars>>

\* save_to_log of the first revision, called by its add_to_log with the
\* minutes on the timer; arg of last is the minutes
SaveToLogFirst(minutes, copyOk, openOk) ==
    LET saved == save_to_log_first(File, current_task, today, now, minutes,
                                   copyOk, openOk)
    IN  /\ SetFile(saved.file)
        /\ last' = Op("save_to_log_first", saved.io, "", minutes, 0)
        /\ UNCHANGED <<timerVars, configVars, reminderVars, now, today, tick_due>>

\* the history window of the first revision loads a range; arg of last is
\* the number of dates that have records
LoadHistoryFirst(start_day, end_day) ==
    /\ last' = Op("load_history_first", "",  "",
                   Cardinality(DOMAIN load_history_data_first(
                       File, DateOf(start_day), DateOf(end_day))), 0)
    /\ UNCHANGED <<timerVars, configVars, reminderVars, now, today, tick_due, fileVars>>

\* refresh_history: the range typed into the history window is loaded and
\* shown; arg and pre of last are the first and the last day of the range
RefreshHistory(start_day, end_day) ==
    /\ last' = Op("refresh_history",
                   IF load_history_data(File, DateOf(start_day),
                                        DateOf(end_day)) = <<>>
                   THEN "no_data" ELSE "shown",
                   "", start_day, end_day)
    /\ UNCHANGED <<timerVars, configVars, reminderVars, now, today, tick_due, fileVars>>

ExportTargets == {"cancel", "elsewhere", "log"}

\* the range is what the history window holds in start_date_var and
\* end_date_var
ExportHistory(start_day, end_day, target) ==
    /\ SetFile(export_history(File, DateOf(start_day), DateOf(end_day), target))
    /\ last' = Op("export_history", IF target = "cancel" THEN "cancelled"
                                     ELSE "exported", target, 0, 0)
    /\ UNCHANGED <<timerVars, configVars, reminderVars, now, today, tick_due>>

-----------------------------------------------------------------------------
(* Specifications.  Each one is the program driven by a bounded set of     *)
(* inputs; the handlers are the same in all of them.                       *)

\* Spec: the stopwatch.  Every timer handler, every adjustment button, two
\* task texts; sessions are not saved.
TimerTexts == {<<>>, <<" ", "a">>}

Next ==
    \/ \E dt \in TickSteps : TimePasses(dt)
    \/ \E text \in TimerTexts : TypeTask(text)
    \/ Start
    \/ Stop
    \/ ToggleStartStop
    \/ \E confirm \in BOOLEAN : Reset(confirm)
    \/ \E seconds \in AdjustSteps : AdjustTime(seconds)
    \/ UpdateDisplay

Spec == Init /\ [][Next]_vars

\* SpecSave: saving a session from every kind of timer state, with every
\* outcome of the file operations and of the reset dialog.
SaveTexts == {<<"a">>}

NextSave ==
    \/ TimePasses(60)
    \/ \E text \in SaveTexts : TypeTask(text)
    \/ Start
    \/ AdjustTime(300)
    \/ UpdateDisplay
    \/ \E copyOk, openOk, confirm \in BOOLEAN :
          Len(Appended) < MaxSaves /\ AddToLog(copyOk, openOk, confirm)

SpecSave == InitInstalled /\ [][NextSave]_vars

\* SpecLog: the log file.  The user works in sessions: types a task or
\* none, starts the timer, lets it run a minute and saves; between sessions
\* the date may change either way.  Every task text; the log is absent,
\* empty or long at first.
InitLog == InitWith({"absent", "empty", "long"}, {TRUE})

NextLog ==
    \/ (is_running /\ Elapsed = 0) /\ TimePasses(60)
    \/ \E day \in 1..MaxDay : ~is_running /\ SetDate(day)
    \/ \E text \in TaskTexts : TypeTask(text)
    \/ ~is_running /\ Start
    \/ UpdateDisplay
    \/ \E copyOk, openOk \in BOOLEAN :
          /\ Len(Appended) < MaxRecords
          /\ counter >= SecondsPerMinute
          /\ AddToLog(copyOk, openOk, TRUE)

SpecLog == InitLog /\ [][NextLog]_vars

\* SpecMalformed: the log file with one malformed line, put into it by an
\* editor at any place after the header row.
HasMalformedLine == \E i \in 1..Len(logFile) : logFile[i].kind = "raw"

Corrupt(line, pos) ==
    /\ ~HasMalformedLine
    /\ pos \in 2..(Len(logFile) + 1)
    /\ logFile' = SubSeq(logFile, 1, pos - 1) \o <<RawPiece(line)>>
                      \o SubSeq(logFile, pos, Len(logFile))
    /\ last' = NoOp
    /\ UNCHANGED <<timerVars, configVars, reminderVars, now, today, tick_due, logExists,
                   oldBytes, backupFile>>

NextMalformed ==
    \/ (is_running /\ Elapsed = 0) /\ TimePasses(60)
    \/ \E day \in 1..MaxDay : ~is_running /\ SetDate(day)
    \/ \E text \in SaveTexts : TypeTask(text)
    \/ ~is_running /\ Start
    \/ UpdateDisplay
    \/ \E openOk \in BOOLEAN :
          /\ Len(Appended) < MaxRecords
          /\ counter >= SecondsPerMinute
          /\ AddToLog(TRUE, openOk, TRUE)
    \/ \E line \in MalformedKinds, pos \in 1..(MaxRecords + 2) :
          Corrupt(line, pos)

SpecMalformed == InitLog /\ [][NextMalformed]_vars

\* SpecExport: sessions are saved as in SpecLog and the history is exported,
\* to the log's own path too.
InitExport == InitWith({"absent", "empty"}, {TRUE})

NextExport ==
    \/ (is_running /\ Elapsed = 0) /\ TimePasses(60)
    \/ \E day \in 1..MaxDay : ~is_running /\ SetDate(day)
    \/ \E text \in TaskTexts : TypeTask(text)
    \/ ~is_running /\ Start
    \/ UpdateDisplay
    \/ \E copyOk, openOk \in BOOLEAN :
          /\ Len(Appended) < MaxRecords
          /\ counter >= SecondsPerMinute
          /\ AddToLog(copyOk, openOk, TRUE)
    \/ \E start_day, end_day \in 1..MaxDay, target \in ExportTargets :
          /\ ~is_running
          /\ last.op # "export_history"
          /\ ExportHistory(start_day, end_day, target)

SpecExport == InitExport /\ [][NextExport]_vars

\* SpecConfig: the program is launched over a configuration file that the
\* user may have edited by hand, and the configuration dialog is saved.
\* A file differs from a valid one in one key, or in two of daily_goal,
\* auto_save and theme.
BaseMapping ==
    ToJson([daily_goal |-> JInt(90), reminder_interval |-> JInt(60),
            reminder_duration |-> JInt(5000), auto_save |-> FALSE,
            sound_enabled |-> TRUE, window_always_on_top |-> TRUE,
            theme |-> "dark"])

FileValues(key) ==
    {BaseMapping[key]} \cup
    (IF key \in IntKeys
     THEN {Missing, JInt(0), JInt(-1), JBool(TRUE), JFloat(90), JStr("90")}
     ELSE IF key \in BoolKeys
     THEN {Missing, JInt(0), JStr("no"), JNull}
     ELSE {Missing, JStr("purple"), JInt(1)})

ConfigFiles ==
    {NoConfigFile, BrokenConfigFile} \cup
    UNION {{MappingFile([BaseMapping EXCEPT ![k[1]] = v1, ![k[2]] = v2]) :
               v1 \in FileValues(k[1]), v2 \in FileValues(k[2])} :
           k \in {<<key, key>> : key \in ConfigKeys} \cup
                  ({"daily_goal", "auto_save"} \X {"auto_save", "theme"})}

\* what the user may type into the three number boxes of the dialog
GoalTexts ==
    {<<"9", "0">>, <<" ", "6", "0", " ">>, <<"0">>, <<"-", "5">>, <<"a">>,
     <<>>, <<"1", ".", "5">>}

IntervalTexts == {<<"6", "0">>, <<"0">>}

DurationTexts == {<<"5", "0", "0", "0">>, <<"x">>}

InitConfig ==
    /\ is_running = FALSE
    /\ counter = 0
    /\ start_timestamp = None
    /\ elapsed_time_before_pause = 0
    /\ current_task = <<>>
    /\ task_var = <<>>
    /\ last_logged_minute_mark = 0
    /\ \E f \in ConfigFiles, writeOk \in BOOLEAN :
          /\ config = load_config(f, writeOk).config
          /\ configFile = load_config(f, writeOk).file
    /\ daily_goal = config.daily_goal
    /\ InitReminder
    /\ now = 0
    /\ today = 1
    /\ tick_due = FALSE
    /\ logExists = FALSE
    /\ logFile = <<>>
    /\ oldBytes = 0
    /\ backupFile = <<>>
    /\ last = NoOp

NextConfig ==
    \/ \E goal_text \in GoalTexts, interval_text \in IntervalTexts,
          duration_text \in DurationTexts, auto_save, on_top, writeOk \in BOOLEAN :
          SaveConfigFromDialog(goal_text, interval_text, duration_text,
                               auto_save, on_top, writeOk)
    \/ \E f \in ConfigFiles \cup {configFile}, writeOk \in BOOLEAN :
          \* a second launch in a row loads what a first one would
          /\ last.op # "load_config"
          /\ Relaunch(f, writeOk)

SpecConfig == InitConfig /\ [][NextConfig]_vars

\* SpecProgress: the progress of the day over a log that earlier runs have
\* written, with a goal of 180 or 60 minutes, or the goal True that
\* validate_config lets through; the session on the clock is set with the
\* +5 min button.
ProgressMinutes == {20, 45, 90, 110}

ProgressRows ==
    {RowPiece(day, 32400, m, NoDescription) :
        day \in 1..MaxDay, m \in ProgressMinutes}

ProgressLogs ==
    {rows \in UNION {[1..n -> ProgressRows] : n \in 0..MaxRecords} :
        \A i \in 1..(Len(rows) - 1) : rows[i].day <= rows[i + 1].day}

ProgressGoals == {JInt(180), JInt(60), JBool(TRUE)}

InitProgress ==
    /\ is_running = FALSE
    /\ counter = 0
    /\ start_timestamp = None
    /\ elapsed_time_before_pause = 0
    /\ current_task = <<>>
    /\ task_var = <<>>
    /\ last_logged_minute_mark = 0
    /\ \E g \in ProgressGoals :
          configFile = MappingFile([BaseMapping EXCEPT !["daily_goal"] = g])
    /\ config = load_config(configFile, TRUE).config
    /\ daily_goal = config.daily_goal
    /\ InitReminder
    /\ now = 0
    /\ today = 1
    /\ tick_due = FALSE
    /\ logExists = TRUE
    /\ \E rows \in ProgressLogs : logFile = <<HeaderPiece>> \o rows
    /\ oldBytes = 0
    /\ backupFile = <<>>
    /\ last = NoOp

NextProgress ==
    \/ counter < 2 * LogMarkSeconds /\ AdjustTime(LogMarkSeconds)
    \/ last.op # "update_progress" /\ UpdateProgress

SpecProgress == InitProgress /\ [][NextProgress]_vars

\* SpecReminder: the timer is started and stopped while the callbacks of
\* the reminder come due.  The interval and the duration are the defaults
\* or the ends of the ranges that the spin boxes of the dialog offer.
ReminderIntervals == {30, 120}

ReminderDurations == {15000, 60000}

ReminderSteps == {15, 30}

InitReminderSpec ==
    /\ is_running = FALSE
    /\ counter = 0
    /\ start_timestamp = None
    /\ elapsed_time_before_pause = 0
    /\ current_task = <<>>
    /\ task_var = <<>>
    /\ last_logged_minute_mark = 0
    /\ \E i \in ReminderIntervals, d \in ReminderDurations :
          config = [default_config EXCEPT !.reminder_interval = JInt(i),
                                          !.reminder_duration = JInt(d)]
    /\ daily_goal = config.daily_goal
    /\ InitReminder
    /\ configFile = save_config(NoConfigFile, config, TRUE).file
    /\ now = 0
    /\ today = 1
    /\ tick_due = FALSE
    /\ logExists = FALSE
    /\ logFile = <<>>
    /\ oldBytes = 0
    /\ backupFile = <<>>
    /\ last = NoOp

\* time does not pass beyond a callback that is due
NextReminder ==
    \/ \E dt \in ReminderSteps :
          /\ \A c \in after_queue : (now + dt) * MsPerSecond <= c.at
          /\ TimePasses(dt)
    \/ UpdateDisplay
    \/ ~is_running /\ Start
    \/ is_running /\ Stop
    \/ ReminderCheck
    \/ AutoHide
    \/ ClickReminder

SpecReminder == InitReminderSpec /\ [][NextReminder]_vars

\* SpecHistory: the history window over a log that earlier runs have
\* written: up to MaxRecords + 1 sessions, of 30, 45 or 10 minutes, saved at
\* 09:00 or 11:00, on days that never go backwards down the file.
HistorySessions == {<<32400, 30>>, <<39600, 45>>, <<32400, 10>>}

HistoryRows ==
    {RowPiece(day, s[1], s[2], NoDescription) :
        day \in 1..MaxDay, s \in HistorySessions}

HistoryLogs ==
    {rows \in UNION {[1..n -> HistoryRows] : n \in 0..(MaxRecords + 1)} :
        \A i \in 1..(Len(rows) - 1) : rows[i].day <= rows[i + 1].day}

InitHistory ==
    /\ is_running = FALSE
    /\ counter = 0
    /\ start_timestamp = None
    /\ elapsed_time_before_pause = 0
    /\ current_task = <<>>
    /\ task_var = <<>>
    /\ last_logged_minute_mark = 0
    /\ config = default_config
    /\ daily_goal = config.daily_goal
    /\ InitReminder
    /\ configFile = save_config(NoConfigFile, config, TRUE).file
    /\ now = 0
    /\ today = 1
    /\ tick_due = FALSE
    /\ logExists = TRUE
    /\ \E rows \in HistoryLogs : logFile = <<HeaderPiece>> \o rows
    /\ oldBytes = 0
    /\ backupFile = <<>>
    /\ last = NoOp

\* one range is loaded in a behaviour: a refresh changes no file and no
\* timer, so a second one starts from the same state as the first
NextHistory ==
    \E start_day, end_day \in 1..MaxDay :
        /\ last.op # "refresh_history"
        /\ RefreshHistory(start_day, end_day)

SpecHistory == InitHistory /\ [][NextHistory]_vars

-----------------------------------------------------------------------------
(* Claims about the stopwatch, checked under Spec *)

\* C1: over start() and stop() calls the elapsed time is the time spent in
\* running intervals: it is 0 after construction, grows by exactly the time
\* that passes while the timer runs, stands still while it is paused, and no
\* start(), stop() or toggle, redundant or not, changes it.
C1_ElapsedIsRunningTime ==
    /\ Elapsed = 0
    /\ [][/\ (now' # now =>
               Elapsed' = Elapsed + (IF is_running THEN now' - now ELSE 0))
           /\ (last'.op \in {"start", "stop", "toggle_start_stop"} =>
               Elapsed' = Elapsed)]_vars

\* a redundant start() on a timer with a closed and an open interval behind it
C1_Witness ==
    /\ last.op = "start"
    /\ last.res = "noop"
    /\ is_running
    /\ elapsed_time_before_pause > 0
    /\ now > start_timestamp

TimerZeroed ==
    /\ Elapsed = 0
    /\ counter = 0
    /\ elapsed_time_before_pause = 0
    /\ ~is_running

\* C2 as claimed: after reset() the elapsed time is 0 and the timer is not
\* running, whatever the state before the call.
C2_ResetAlwaysZeroes == last.op = "reset" => TimerZeroed

\* C2 amended: reset() leaves the elapsed time at 0 and the timer not
\* running, except when the counter is above RESET_CONFIRMATION_SECONDS and
\* the confirmation is declined; then it changes nothing.
C2_ResetZeroesUnlessDeclined ==
    [][last'.op = "reset" =>
          IF counter > RESET_CONFIRMATION_SECONDS /\ last'.res = "declined"
          THEN UNCHANGED timerVars
          ELSE TimerZeroed']_vars

\* a confirmed reset() of a running timer showing more than ten minutes
C2_Witness ==
    /\ last.op = "reset"
    /\ last.res = "done"
    /\ last.io = "was_running"
    /\ last.pre > RESET_CONFIRMATION_SECONDS
    /\ TimerZeroed

\* C7: at any moment, running or paused, adjust_time(d) followed at once
\* by adjust_time(-d) brings the elapsed time back to what it was, unless
\* the first call clamped the elapsed time at zero.
C7_AdjustThenUndo ==
    \A d \in AdjustSteps :
        ~ClampsElapsed(Self, now, d) =>
            ElapsedOf(adjust_time(adjust_time(Self, d), 0 - d), now) = Elapsed

StartingOps == {"start", "toggle_start_stop"}

StoppingOps == {"stop", "toggle_start_stop", "add_to_log"}

\* C10 as claimed: the timer starts paused; is_running becomes true only in
\* start() and false only in stop() (called directly, by the toggle or by
\* add_to_log); reset() and adjust_time() leave is_running as it was.
C10_ResetIsSelfLoop ==
    /\ ~is_running
    /\ [][/\ ((~is_running /\ is_running') => last'.op \in StartingOps)
           /\ ((is_running /\ ~is_running') => last'.op \in StoppingOps)
           /\ (last'.op \in {"reset", "adjust_time"} =>
                  is_running' = is_running)]_vars

\* C10 amended: the timer starts paused; is_running becomes true only in
\* start() and false only in stop() or reset(); adjust_time() leaves
\* is_running as it was, and reset() leaves the timer paused.
C10_RunningTransitions ==
    /\ ~is_running
    /\ [][/\ ((~is_running /\ is_running') => last'.op \in StartingOps)
           /\ ((is_running /\ ~is_running') =>
                  last'.op \in StoppingOps \cup {"reset"})
           /\ (last'.op = "adjust_time" => is_running' = is_running)
           /\ ((last'.op = "reset" /\ last'.res = "done") =>
                  ~is_running')]_vars

\* reset() has taken a running timer to paused
C10_Witness ==
    /\ last.op = "reset"
    /\ last.res = "done"
    /\ last.io = "was_running"
    /\ ~is_running

-----------------------------------------------------------------------------
(* Claims about saving a session, checked under SpecSave *)

\* C3: whenever add_to_log() has appended a record, the timer is reset
\* before the operation ends: elapsed time 0, not running, task label
\* cleared.  Taken in the default configuration, auto_save on.
C3_SavedThenReset ==
    (last.op = "add_to_log" /\ last.res = "saved" /\ config.auto_save) =>
        /\ Elapsed = 0
        /\ ~is_running
        /\ current_task = <<>>

\* C8: when the log is above the backup threshold and the backup copy
\* fails, the record is appended all the same and success is reported.
C8_BackupFailureDoesNotBlock ==
    [][(last'.op = "add_to_log" /\ last'.io = "backup_failed") =>
          /\ last'.res = "saved"
          /\ Len(SessionRows(logFile')) = Len(SessionRows(logFile)) + 1]_vars

\* C9: when the append fails, add_to_log() reports the failure and leaves
\* the running flag, the elapsed time, the task label and the log as they
\* were before the call.
C9_FailedSaveChangesNothing ==
    [][(last'.op = "add_to_log" /\ last'.res = "failed") =>
          /\ is_running' = is_running
          /\ Elapsed' = Elapsed
          /\ current_task' = current_task
          /\ logExists' = logExists
          /\ logFile' = logFile]_vars

-----------------------------------------------------------------------------
(* Claims about the log file, checked under SpecLog and SpecMalformed *)

\* the record save_to_log was given for a session row
RecordOf(piece) ==
    <<FormatTimestamp(piece.day, piece.t), piece.minutes, piece.text>>

\* what load_history_data returns for one date
LoadedOn(f, date) ==
    LET data == load_history_data(f, date, date)
    IN  IF date \in DOMAIN data THEN data[date] ELSE <<>>

\* C4: every record save_to_log has appended, whatever its task text and
\* whatever the log was before, is in what load_history_data returns for
\* the record's date, with the same timestamp, minutes and task.
C4_AppendedIsLoaded ==
    \A i \in 1..Len(Appended) :
        LET loaded == LoadedOn(File, DateOf(Appended[i].day))
        IN  \E j \in 1..Len(loaded) : loaded[j] = RecordOf(Appended[i])

\* two records in the log, the task of one holding a quote, a semicolon
\* and a line break, and both are loaded
C4_Witness ==
    /\ Len(Appended) = 2
    /\ \E i \in 1..2 : "\n" \in {Appended[i].text[k] :
                                     k \in 1..Len(Appended[i].text)}
    /\ \E i \in 1..2 : Appended[i].text = NoDescription
    /\ Len(LoadedOn(File, DateOf(Appended[1].day))) >= 1

\* the minutes of the appended records of one day
RECURSIVE MinutesOn(_, _)
MinutesOn(rows, day) ==
    IF rows = <<>> THEN 0
    ELSE (IF Head(rows).day = day THEN Head(rows).minutes ELSE 0)
             + MinutesOn(Tail(rows), day)

\* C5: read_and_sum_today() is the sum of the minutes of exactly the
\* appended records dated today, however records of several dates are
\* interleaved in the file.
C5_SumIsTodaysMinutes ==
    read_and_sum_today(File, today) = MinutesOn(Appended, today)

\* a record of another day before a record of today
C5_Witness ==
    /\ Len(Appended) = 2
    /\ Appended[1].day # today
    /\ Appended[2].day = today
    /\ Appended[1].minutes > 0
    /\ read_and_sum_today(File, today) = Appended[2].minutes

\* the appended records of one day, in file order
RECURSIVE RecordsOn(_, _)
RecordsOn(rows, day) ==
    IF rows = <<>> THEN <<>>
    ELSE (IF Head(rows).day = day THEN <<RecordOf(Head(rows))>> ELSE <<>>)
             \o RecordsOn(Tail(rows), day)

\* C6: with one malformed line anywhere among the records, load_history_data
\* over a covering range returns exactly the well-formed records, and
\* read_and_sum_today counts every well-formed record of today and nothing
\* more.
C6_MalformedLineSkipped ==
    HasMalformedLine =>
        /\ \A day \in 1..MaxDay :
               LoadedOn(File, DateOf(day)) = RecordsOn(Appended, day)
        /\ read_and_sum_today(File, today) = MinutesOn(Appended, today)

\* C27: a log that was missing or empty at first and has been written by
\* save_to_log alone holds the header row exactly once, as its first row,
\* after any number of appends; the rows after the first, which the readers
\* keep, are the appended records, none dropped.
C27_HeaderOnceAndFirst ==
    (oldBytes = 0 /\ Appended # <<>>) =>
        LET rows == csv_reader(FileText(File))
        IN  /\ rows[1] = HeaderRow
            /\ \A i \in 2..Len(rows) : rows[i] # HeaderRow
            /\ DataRows(File) = [i \in 1..Len(Appended) |-> RowFields(Appended[i])]

\* two appends to a file that was empty at first
C27_Witness ==
    /\ oldBytes = 0
    /\ Len(Appended) = 2
    /\ Len(logFile) = 3
    /\ logFile[1] = HeaderPiece
    /\ Len(csv_reader(FileText(File))) = 3

-----------------------------------------------------------------------------
(* Further claims about the stopwatch, under Spec *)

\* C11: start() on a running timer is a no-op: the running flag, the
\* interval start, the accumulated time and the stored task label keep
\* their values, also when the text of the task entry is not the label.
C11_StartWhileRunningIsNoOp ==
    [][(is_running /\ last'.op = "start") =>
          UNCHANGED <<is_running, start_timestamp, elapsed_time_before_pause,
                      current_task>>]_vars

\* start() on a running timer whose entry text is not the stored label
C11_Witness ==
    /\ last.op = "start"
    /\ last.res = "noop"
    /\ is_running
    /\ task_var # current_task
    /\ now > start_timestamp


\* C12 as claimed: in every reachable state start_timestamp is None exactly
\* when the timer is not running (so stop() on a running timer clears it).
C12_TimestampIffRunning == (start_timestamp = None) <=> ~is_running

\* C12 amended: start_timestamp is set whenever the timer runs; stop() leaves
\* it as it is, and only reset() (called directly or by add_to_log) puts it
\* back to None.
C12_TimestampKeptByStop ==
    /\ [](is_running => start_timestamp # None)
    /\ [][/\ (last'.op = "stop" => start_timestamp' = start_timestamp)
           /\ ((start_timestamp # None /\ start_timestamp' = None) =>
                  last'.op \in {"reset", "add_to_log"})]_vars

\* stop() has paused a running timer and the interval start is still set
C12_Witness ==
    /\ last.op = "stop"
    /\ last.res = "stopped"
    /\ ~is_running
    /\ start_timestamp # None
    /\ elapsed_time_before_pause > 0


\* C13: the elapsed time is never negative; in a step that is not an
\* adjust_time() or a reset() (add_to_log resets through reset()) it does
\* not decrease while the timer runs and does not change while it is paused.
C13_ElapsedMonotone ==
    /\ [](Elapsed >= 0 /\ counter >= 0 /\ elapsed_time_before_pause >= 0)
    /\ [][last'.op \notin {"adjust_time", "reset", "add_to_log"} =>
              IF is_running THEN Elapsed' >= Elapsed
              ELSE Elapsed' = Elapsed]_vars

\* a timer that was adjusted and paused before runs on, and stop() has just
\* closed an interval in which time passed
C13_Witness ==
    /\ last.op = "stop"
    /\ last.res = "stopped"
    /\ now > start_timestamp
    /\ start_timestamp > 0
    /\ elapsed_time_before_pause > now - start_timestamp


-----------------------------------------------------------------------------
(* Claims about the log file and export_history, under SpecExport *)

IsPrefix(a, b) == Len(a) <= Len(b) /\ SubSeq(b, 1, Len(a)) = a

\* C14: the log is append-only: no operation changes or removes what is
\* already in the log, so in every step the log before is a prefix of the
\* log after.
C14_AppendOnly ==
    [][logExists =>
          /\ logExists'
          /\ IsPrefix(FileText(File), FileText(File)')]_vars


-----------------------------------------------------------------------------
(* Claims about load_history_data, under SpecHistory *)

\* the days of a range that have appended records
DaysWithRecords(start_day, end_day) ==
    {d \in start_day..end_day : RecordsOn(Appended, d) # <<>>}

RECURSIVE SumMinutes(_)
SumMinutes(entries) ==
    IF entries = <<>> THEN 0
    ELSE Head(entries)[2] + SumMinutes(Tail(entries))

\* the log of the example: (01-01 09:00, 30), (01-01 11:00, 45),
\* (01-02 09:00, 10)
ExampleLog ==
    <<HeaderPiece, RowPiece(1, 32400, 30, NoDescription),
      RowPiece(1, 39600, 45, NoDescription),
      RowPiece(2, 32400, 10, NoDescription)>>

\* C15: for a log written by save_to_log, load_history_data(start, end)
\* returns exactly the records dated within [start, end], grouped under
\* their date and within a date in file order; for the example log the
\* range 01-01..01-02 gives two groups, of two records totalling 75 and of
\* one record of 10.
C15_RangeGroupedInFileOrder ==
    last.op = "refresh_history" =>
        LET data == load_history_data(File, DateOf(last.arg), DateOf(last.pre))
            days == DaysWithRecords(last.arg, last.pre)
        IN  /\ DOMAIN data = {DateOf(d) : d \in days}
            /\ \A d \in days : data[DateOf(d)] = RecordsOn(Appended, d)
            /\ (logFile = ExampleLog /\ last.arg = 1 /\ last.pre = 2) =>
                   /\ DOMAIN data = {DateOf(1), DateOf(2)}
                   /\ Len(data[DateOf(1)]) = 2
                   /\ SumMinutes(data[DateOf(1)]) = 75
                   /\ Len(data[DateOf(2)]) = 1
                   /\ SumMinutes(data[DateOf(2)]) = 10

\* the example log has been loaded over 01-01..01-02
C15_Witness ==
    /\ last.op = "refresh_history"
    /\ last.res = "shown"
    /\ logFile = ExampleLog
    /\ last.arg = 1
    /\ last.pre = 2
    /\ read_and_sum_today(File, 1) = 75


-----------------------------------------------------------------------------
(* Claims about the configuration, under SpecConfig *)

\* C16: when the configuration dialog is saved with a daily goal, a
\* reminder interval or a reminder duration that is not a positive integer,
\* the input is rejected and self.config, self.daily_goal and the
\* configuration file stay as they were.
C16_BadInputChangesNothing ==
    [][(last'.op = "save_config_from_dialog" /\ last'.io = "not_positive") =>
          (last'.res = "rejected" /\ UNCHANGED configVars)]_vars

\* a dialog with a wrong number was rejected while a configuration other
\* than the default one was in force
C16_Witness ==
    /\ last.op = "save_config_from_dialog"
    /\ last.io = "not_positive"
    /\ last.res = "rejected"
    /\ config.daily_goal = JInt(90)
    /\ configFile = MappingFile(ToJson(config))


\* C19: after any sequence of launches over a valid, an invalid or a
\* missing configuration file and of dialog saves, accepted or rejected,
\* self.daily_goal is self.config['daily_goal'] and a positive integer (an
\* int in the sense of isinstance, which True = 1 is too), so that
\* update_progress divides by it and never by zero or less.
C19_GoalPositive ==
    /\ daily_goal = config.daily_goal
    /\ IsInstanceInt(daily_goal)
    /\ daily_goal.n > 0
    /\ \A total \in 0..MaxMinutes :
          percentage_of(total, daily_goal) =
              [num |-> total * 100, den |-> daily_goal.n]

\* the file holds the goal 0, the program runs with the default goal, and a
\* dialog with a wrong number has been rejected
C19_Witness ==
    /\ last.op = "save_config_from_dialog"
    /\ last.res = "rejected"
    /\ configFile.kind = "mapping"
    /\ configFile.map.daily_goal = JInt(0)
    /\ daily_goal = default_config.daily_goal

\* the theme names offered by the dialog
ThemeNames == {"default", "dark", "light"}

\* a value of the file is valid for its key: a positive integer, a boolean,
\* a theme name
ValidFor(key, value) ==
    IF key \in IntKeys THEN value.t = "int" /\ value.n > 0
    ELSE IF key \in BoolKeys THEN value.t = "bool"
    ELSE value.t = "str" /\ value.s \in ThemeNames

\* C17: after a configuration mapping has been loaded, every recognized key
\* whose value in the file is valid for its type has that value in
\* self.config, and every other recognized key has its default; one invalid
\* key does not reset another.
C17_InvalidKeysGetDefaults ==
    (last.op = "load_config" /\ last.res = "mapping") =>
        \A key \in ConfigKeys :
            ToJson(config)[key] =
                IF ValidFor(key, configFile.map[key]) THEN configFile.map[key]
                ELSE ToJson(default_config)[key]


-----------------------------------------------------------------------------
(* Claims about the progress of the day, under SpecProgress *)

\* C18: the percentage that update_progress computes is
\* total * 100 / daily_goal and is not capped at 100 (with the goal 180 a
\* total of 90 gives 50.0 and a total of 200 gives 111.1); the value given
\* to the progress bar is min(percentage, 100) and never exceeds 100.
C18_PercentageUncapped ==
    last.op = "update_progress" =>
        LET shown == update_progress(Self, File, daily_goal, today)
            p == shown.percentage
            total == MinutesOn(Appended, today) + counter \div SecondsPerMinute
        IN  /\ shown.total_with_current = total
            /\ p.num * daily_goal.n = total * 100 * p.den
            /\ (daily_goal = JInt(180) /\ total = 90) => PercentEq(p, Percent(50))
            /\ (daily_goal = JInt(180) /\ total = 200) =>
                   /\ 1111 * p.den <= 10 * p.num
                   /\ 10 * p.num < 1112 * p.den
            /\ ~PercentLess(Percent(100), shown.bar)
            /\ IF PercentLess(p, Percent(100)) THEN PercentEq(shown.bar, p)
               ELSE PercentEq(shown.bar, Percent(100))

\* with the goal 180 the day has reached 200 minutes: more than 100 percent
C18_Witness ==
    /\ last.op = "update_progress"
    /\ daily_goal = JInt(180)
    /\ last.arg = 200
    /\ last.res = "(Cel osiagniety!)"


\* the five ranges [0,25), [25,50), [50,75), [75,100), [100,oo)
Tier(p) ==
    IF PercentLess(p, Percent(25)) THEN 1
    ELSE IF PercentLess(p, Percent(50)) THEN 2
    ELSE IF PercentLess(p, Percent(75)) THEN 3
    ELSE IF PercentLess(p, Percent(100)) THEN 4
    ELSE 5

Percents == {Percent(n) : n \in 0..MaxPercent}

\* C20 as stated: a percentage of another range than the one on the screen
\* has neither its colour nor its status label.
C20_FiveBandsEach ==
    last.op = "update_progress" =>
        LET p == percentage_of(last.arg, daily_goal)
        IN  \A q \in Percents :
                Tier(q) # Tier(p) =>
                    /\ get_progress_color(q) # last.io
                    /\ progress_status(q) # last.res

\* C20: the colour and the status label together tell the five ranges
\* apart: a percentage of another range than the one on the screen differs
\* from it in colour or in label.  The colour alone has four bands, one for
\* all of [75,oo); the label alone has four, one for all of [25,75).
C20_FiveBandsTogether ==
    last.op = "update_progress" =>
        LET p == percentage_of(last.arg, daily_goal)
        IN  /\ Tier(p) \in 1..5
            /\ \A q \in Percents :
                  /\ Tier(q) # Tier(p) =>
                        <<get_progress_color(q), progress_status(q)>>
                            # <<last.io, last.res>>
                  /\ (get_progress_color(q) = last.io) <=>
                        \/ Tier(q) = Tier(p)
                        \/ {Tier(q), Tier(p)} = {4, 5}
                  /\ (progress_status(q) = last.res) <=>
                        \/ Tier(q) = Tier(p)
                        \/ {Tier(q), Tier(p)} = {2, 3}

\* the screen shows a percentage of [50,75): light green, and the label
\* that [25,50) has too
C20_Witness ==
    /\ last.op = "update_progress"
    /\ Tier(percentage_of(last.arg, daily_goal)) = 3
    /\ last.io = COLOR_GREEN_LIGHT
    /\ last.res = progress_status(Percent(25))


\* SpecClose: a session that ends with the window being closed, with
\* auto_save as the user left it and every answer to the questions asked.
InitClose == InitWith({"absent"}, BOOLEAN)

NextClose ==
    \/ \E dt \in TickSteps : ~Destroyed /\ TimePasses(dt)
    \/ (~Destroyed /\ ~is_running) /\ Start
    \/ (~Destroyed /\ is_running) /\ Stop
    \/ ~Destroyed /\ UpdateDisplay
    \/ \E openOk, confirm \in BOOLEAN :
          /\ ~Destroyed
          /\ Len(Appended) < MaxSaves
          /\ AddToLog(TRUE, openOk, confirm)
    \/ \E quit, save, openOk \in BOOLEAN :
          ~Destroyed /\ OnClosing(quit, save, TRUE, openOk, TRUE)

SpecClose == InitClose /\ [][NextClose]_vars

\* SpecTimerSave: the timer with every operation that changes it, the save
\* included, from the first run.  The timer is driven until a session is
\* saved; a save leaves it paused or reset, as a stop or a reset does, and
\* is followed here by saves only.
NextTimerSave ==
    \/ \E dt \in TickSteps : Appended = <<>> /\ TimePasses(dt)
    \/ Appended = <<>> /\ Start
    \/ Appended = <<>> /\ Stop
    \/ \E confirm \in BOOLEAN : Appended = <<>> /\ Reset(confirm)
    \/ \E seconds \in AdjustSteps : Appended = <<>> /\ AdjustTime(seconds)
    \/ Appended = <<>> /\ UpdateDisplay
    \/ \E openOk, confirm \in BOOLEAN :
          Len(Appended) < MaxSaves /\ AddToLog(TRUE, openOk, confirm)

InitTimerSave == InitWith({"absent"}, BOOLEAN)

SpecTimerSave == InitTimerSave /\ [][NextTimerSave]_vars

\* SpecFirstLog: the log of the first revision, written from a missing
\* file by up to MaxRecords + 1 saves of one task, then loaded.  The task
\* is what start() took from the entry: the typed text, stripped.
FirstTaskTexts ==
    {<<>>, <<"a">>, <<"a", " ", "b">>, <<"a", "\t", "b">>, <<" ", "a", "\t">>}

FirstMinutes == {1, 5, 12}

FirstTimes == {32400, 39660}

InitFirstLog ==
    /\ now \in FirstTimes
    /\ today \in 1..MaxDay
    /\ is_running = FALSE
    /\ counter = 0
    /\ start_timestamp = None
    /\ elapsed_time_before_pause = 0
    /\ \E text \in FirstTaskTexts :
           /\ task_var = text
           /\ current_task = Strip(text)
    /\ last_logged_minute_mark = 0
    /\ config = default_config
    /\ daily_goal = config.daily_goal
    /\ reminder_window = ReminderAtLaunch(config, now).window
    /\ last_reminder_time = ReminderAtLaunch(config, now).last
    /\ after_queue = ReminderAtLaunch(config, now).queue
    /\ configFile = save_config(NoConfigFile, config, TRUE).file
    /\ tick_due = FALSE
    /\ logExists = FALSE
    /\ logFile = <<>>
    /\ oldBytes = 0
    /\ backupFile = <<>>
    /\ last = NoOp

NextFirstLog ==
    \/ \E minutes \in FirstMinutes, openOk \in BOOLEAN :
           /\ Len(logFile) <= MaxRecords
           /\ last.op # "load_history_first"
           /\ SaveToLogFirst(minutes, TRUE, openOk)
    \/ /\ last.op = "save_to_log_first"
       /\ LoadHistoryFirst(1, MaxDay)

SpecFirstLog == InitFirstLog /\ [][NextFirstLog]_vars

-----------------------------------------------------------------------------
(* Claims about the first revision's log, under SpecFirstLog *)

\* the record the last save wrote, as load_history_data returns a record
FirstSavedEntry ==
    <<FormatTimestampMinutes(today, now), last.arg,
      IF current_task # <<>> THEN current_task ELSE NoDescription>>

\* C22: in the first revision's tab-separated log the delimiter cannot
\* collide with the content of a field: after a save is written, the file
\* reads back as one record for each save, the last of them with the same
\* minutes and the same task text as was saved, for every task text
\* (also one that contains a tab).
C22_TabLogRoundTrip ==
    (last.op = "save_to_log_first" /\ last.res = "written") =>
        LET data == load_history_data_first(File, DateOf(today), DateOf(today))
        IN  /\ DOMAIN data = {DateOf(today)}
            /\ Len(data[DateOf(today)]) = Len(logFile)
            /\ data[DateOf(today)][Len(logFile)] = FirstSavedEntry

-----------------------------------------------------------------------------
(* Claims about the reminder, under SpecReminder *)

\* the timer was paused by the last step
JustPaused == last.op \in StoppingOps /\ last.res = "stopped"

\* C21: a reminder popup is shown only when the timer has been idle for
\* longer than reminder_interval seconds.  Two consequences are stated: a
\* popup on the screen was made later than reminder_interval seconds after
\* the launch (the timer cannot have been idle for longer than the program
\* has run), and the reminder_check that runs at the instant at which the
\* timer was paused shows no popup.
C21_ShownOnlyAfterIdleInterval ==
    /\ [](reminder_window # None =>
             reminder_window > config.reminder_interval.n)
    /\ [][(JustPaused /\ last'.op = "reminder_check") =>
             last'.res # "shown"]_vars

-----------------------------------------------------------------------------
(* Claims about add_to_log and the timer, under SpecSave, SpecClose and Spec *)

\* C23: the minutes add_to_log writes are floor(elapsed / 60) of the time
\* on the timer at the moment of the save (pre of last), the interval that
\* is running up to the save included.
C23_MinutesOfElapsedAtSave ==
    (last.op = "add_to_log" /\ last.res = "saved") =>
        Appended[Len(Appended)].minutes = last.pre \div SecondsPerMinute


\* C24: add_to_log appends a record only when a full minute is on the
\* timer: with floor(counter / 60) < 1 it appends nothing and changes
\* nothing of the timer (a running timer keeps running, the elapsed time and
\* the task label are kept), and every record in the log has minutes >= 1.
C24_NothingBelowOneMinute ==
    /\ [](\A i \in 1..Len(Appended) : Appended[i].minutes >= 1)
    /\ [][(last'.op = "add_to_log" /\ counter \div SecondsPerMinute < 1) =>
              /\ last'.res = "too_short"
              /\ UNCHANGED <<timerVars, fileVars>>
              /\ Elapsed' = Elapsed]_vars

\* add_to_log was pressed on a running timer that showed less than a minute
C24_Witness ==
    /\ last.op = "add_to_log"
    /\ last.res = "too_short"
    /\ is_running
    /\ Elapsed > 0



\* C30: whenever the timer is not running the displayed counter is the
\* banked total, counter = elapsed_time_before_pause, after any sequence of
\* start, stop, reset, adjust_time, update_display and save.
C30_PausedCounterIsBanked ==
    ~is_running => counter = elapsed_time_before_pause

\* a timer that was adjusted below its banked total while it ran has been
\* paused by a save that left the time on it
C30_Witness ==
    /\ ~is_running
    /\ last.op = "add_to_log"
    /\ last.res = "saved"
    /\ counter > 0
    /\ counter # now - start_timestamp

\* C25: while the timer runs, adjust_time(-d) with d no larger than the
\* displayed time lowers the elapsed time by d for good: the counter the
\* next update_display computes is d less than the one it would have
\* computed without the adjustment.
C25_NegativeAdjustLasts ==
    [][(/\ last'.op = "adjust_time"
        /\ is_running
        /\ last'.arg < 0
        /\ 0 - last'.arg <= counter) =>
           update_display(Self', now').counter
               = update_display(Self, now).counter + last'.arg]_vars

-----------------------------------------------------------------------------
(* Claims about on_closing, under SpecClose *)

\* C26: on_closing never destroys the window while the timer holds at least
\* one full minute without first asking the user whether to save it,
\* whatever the auto_save setting is.
C26_AsksBeforeDestroying ==
    (Destroyed /\ last.pre \div SecondsPerMinute >= 1) =>
        last.io \in {"asked_yes", "asked_no"}


-----------------------------------------------------------------------------
(* Further claims about the reminder, under SpecReminder *)

\* C28: whenever the timer is running no reminder popup is visible: start()
\* hides a visible one and reminder_check shows none while is_running is
\* true, however the reminder_check callback, the auto-hide callback and the
\* user's operations are interleaved.
C28_NoReminderWhileRunning ==
    /\ [](is_running => reminder_window = None)
    /\ [][(is_running /\ last'.op = "reminder_check") =>
              last'.res = "quiet"]_vars

\* reminder_check ran on a running timer when the last popup was more than
\* reminder_interval old
C28_Witness ==
    /\ is_running
    /\ last.op = "reminder_check"
    /\ now - last_reminder_time >= config.reminder_interval.n
    /\ reminder_window = None


\* C29: a reminder popup stays up for the whole reminder_duration unless it
\* is clicked away or the timer is started: the auto-hide callback that was
\* scheduled for one popup (arg of last) never closes another, later popup
\* (pre of last), for every positive reminder_interval and
\* reminder_duration.
C29_AutoHideClosesItsOwnPopup ==
    (last.op = "auto_hide" /\ last.res = "closed") => last.arg = last.pre

=============================================================================
